---- MODULE Spec2Model ----
(***************************************************************************)
(* Model of SearchService.searchSmart and SearchService.parseQuery          *)
(* (server/src/services/search.service.ts).                                 *)
(*                                                                         *)
(* Strings are sequences of one-character strings, so that concatenation,  *)
(* the similarTo: regular expression and String.replace are computed as    *)
(* the code computes them.  The body of searchSmart is modelled statement  *)
(* by statement in the order the file gives them: lines 142-166 (the       *)
(* cached single-embedding path) are followed by lines 168-214 (the        *)
(* parse / fetch / encode / combine path).  Every await is a suspension    *)
(* point at which the awaited call resolves or rejects; every collaborator *)
(* call, and what it resolved with, is appended to the request's call log. *)
(***************************************************************************)
EXTENDS Integers, Sequences, FiniteSets, TLC

(***************************************************************************)
(* Strings                                                                 *)
(***************************************************************************)

\* the literal of /similarTo:([^\s]+)/gi
SimilarToLit == <<"s", "i", "m", "i", "l", "a", "r", "T", "o", ":">>

\* a differently cased spelling the /i flag accepts
SimilarToUpper == <<"S", "I", "M", "I", "L", "A", "R", "T", "O", ":">>

\* String(undefined), what `+ dto.language` appends when no language is given
UndefinedStr == <<"u", "n", "d", "e", "f", "i", "n", "e", "d">>

\* \s of the regular expressions (the characters the inputs use)
IsSpace(c) == c \in {" ", "\t"}

\* case folding of the /i flag
LowerChar(c) ==
  CASE c = "S" -> "s" [] c = "I" -> "i" [] c = "M" -> "m" [] c = "L" -> "l"
    [] c = "A" -> "a" [] c = "R" -> "r" [] c = "T" -> "t" [] c = "O" -> "o"
    [] OTHER -> c

\* /similarTo:[^\s]+/i matches at position p of s
MatchAt(s, p) ==
  /\ p + 10 <= Len(s)
  /\ \A j \in 1..10 : LowerChar(s[p + j - 1]) = LowerChar(SimilarToLit[j])
  /\ ~IsSpace(s[p + 10])

\* last position of the maximal run of non-whitespace that starts at p
RunEnd(s, p) ==
  CHOOSE e \in p..Len(s) :
    /\ \A k \in p..e : ~IsSpace(s[k])
    /\ (e = Len(s) \/ IsSpace(s[e + 1]))

RECURSIVE ExecAll(_, _)
\* the successive results of similarToRegex.exec(s) from lastIndex = from - 1:
\* a sequence of [full |-> match[0], id |-> match[1]]
ExecAll(s, from) ==
  LET starts == {p \in from..Len(s) : MatchAt(s, p)} IN
  IF starts = {} THEN <<>>
  ELSE LET p == CHOOSE q \in starts : \A q2 \in starts : q <= q2
           e == RunEnd(s, p + 10)
       IN <<[full |-> SubSeq(s, p, e), id |-> SubSeq(s, p + 10, e)]>>
            \o ExecAll(s, e + 1)

\* String.prototype.indexOf, 1-based, 0 when absent
IndexOf(hay, needle) ==
  LET n == Len(needle)
      occ == {i \in 1..(Len(hay) - n + 1) : SubSeq(hay, i, i + n - 1) = needle}
  IN IF occ = {} THEN 0 ELSE CHOOSE i \in occ : \A i2 \in occ : i <= i2

\* hay.replace(needle, '') with a string pattern: the first occurrence only
ReplaceFirst(hay, needle) ==
  LET i == IndexOf(hay, needle) IN
  IF i = 0 THEN hay
  ELSE SubSeq(hay, 1, i - 1) \o SubSeq(hay, i + Len(needle), Len(hay))

RECURSIVE RemoveMatches(_, _)
\* the loop of lines 122-126 applied to searchText
RemoveMatches(text, ms) ==
  IF ms = <<>> THEN text
  ELSE RemoveMatches(ReplaceFirst(text, Head(ms).full), Tail(ms))

\* .replace(/,\s*$/, '')
StripCommaThenSpace(s) ==
  LET ps == {p \in 1..Len(s) :
               s[p] = "," /\ \A k \in (p + 1)..Len(s) : IsSpace(s[k])}
  IN IF ps = {} THEN s
     ELSE SubSeq(s, 1, (CHOOSE p \in ps : \A p2 \in ps : p <= p2) - 1)

\* .replace(/\s*,$/, '')
StripSpaceThenComma(s) ==
  IF s = <<>> \/ s[Len(s)] # "," THEN s
  ELSE LET qs == {q \in 1..Len(s) : \A k \in q..(Len(s) - 1) : IsSpace(s[k])}
       IN SubSeq(s, 1, (CHOOSE q \in qs : \A q2 \in qs : q <= q2) - 1)

RECURSIVE CollapseSpaces(_)
\* .replaceAll(/\s{2,}/g, ' ')
CollapseSpaces(s) ==
  IF s = <<>> THEN <<>>
  ELSE IF IsSpace(s[1]) /\ Len(s) >= 2 /\ IsSpace(s[2])
       THEN LET e == CHOOSE x \in 1..Len(s) :
                       /\ \A k \in 1..x : IsSpace(s[k])
                       /\ (x = Len(s) \/ ~IsSpace(s[x + 1]))
            IN <<" ">> \o CollapseSpaces(SubSeq(s, e + 1, Len(s)))
       ELSE <<s[1]>> \o CollapseSpaces(Tail(s))

\* .trim()
Trim(s) ==
  LET ns == {p \in 1..Len(s) : ~IsSpace(s[p])} IN
  IF ns = {} THEN <<>>
  ELSE SubSeq(s, CHOOSE p \in ns : \A p2 \in ns : p <= p2,
                 CHOOSE p \in ns : \A p2 \in ns : p >= p2)

\* parseQuery pushing match[0] instead of match[1]
parseQueryFullMatch(smartSearchQuery) ==
  LET ms == ExecAll(smartSearchQuery, 1) IN
  [ similarToAssetIds |-> [i \in 1..Len(ms) |-> ms[i].full],
    searchText |-> Trim(CollapseSpaces(StripSpaceThenComma(StripCommaThenSpace(
                     RemoveMatches(smartSearchQuery, ms))))) ]

\* private parseQuery(smartSearchQuery): SmartSearchQuery
parseQuery(smartSearchQuery) ==
  LET ms == ExecAll(smartSearchQuery, 1) IN
  [ similarToAssetIds |-> [i \in 1..Len(ms) |-> ms[i].id],
    searchText |-> Trim(CollapseSpaces(StripSpaceThenComma(StripCommaThenSpace(
                     RemoveMatches(smartSearchQuery, ms))))) ]

(***************************************************************************)
(* Bounds and input domains                                                *)
(***************************************************************************)

\* number of searchSmart requests that may be in flight together
NumReq == 2

\* entries already in the cache when the modelled requests begin
Prefill == 99

\* new LRUMap<string, string>(100)
Capacity == 100

Requests == 1..NumReq

Locked == "LOCKED"
Timeline == "TIMELINE"

\* an optional value of a DTO: absent (undefined) or present
None == [def |-> FALSE, val |-> <<>>]
Some(v) == [def |-> TRUE, val |-> v]

ModelM == <<"m">>

QBlank == <<" ">>
QText == <<"a">>
QRef == SimilarToLit \o <<"x">>
QMixed == <<"a", " ">> \o SimilarToLit \o <<"x">>
QTwoRefs == SimilarToLit \o <<"x", " ">> \o SimilarToLit \o <<"y">>

\* an (auth, dto) pair of user u1 without page and size
Input(elevated, visibility, query, language) ==
  [userId |-> "u1", elevated |-> elevated, visibility |-> visibility,
   query |-> query, language |-> language, page |-> None, size |-> None]

\* the same pair with dto.page and dto.size given
Paged(in, page, size) == [in EXCEPT !.page = Some(page), !.size = Some(size)]

\* the (auth, dto) pairs a single request is drawn from
RequestInputs ==
  { Input(FALSE, Timeline, q, None) : q \in {QBlank, QText, QRef, QMixed, QTwoRefs} }
  \cup { Input(e, Locked, QText, None) : e \in BOOLEAN }
  \cup { Input(FALSE, Timeline, QText, Some(<<"e", "n">>)) }
  \cup { Paged(Input(FALSE, Timeline, QText, None), 2, 5) }

\* what getConfig may return
Configs == { [enabled |-> en, modelName |-> ModelM] : en \in BOOLEAN }

\* what the partner directory may return
PartnerLists == { <<>>, <<"u2">> }

\* embeddings, in fixed point with 60 for 1.0 so that the mean of up to six
\* of them is exact: [1, 2] and [3, 4]
V12 == <<60, 120>>
V34 == <<180, 240>>

\* what the encoder may return for a text
Vectors == { V12, V34 }

\* the embedding stored for an asset id
StoredEmbedding(id) == IF id = <<"x">> THEN V12 ELSE V34

\* what the nearest-neighbour index may return
SearchResults ==
  { [items |-> <<>>, hasNextPage |-> FALSE],
    [items |-> <<"a1">>, hasNextPage |-> FALSE],
    [items |-> <<"a1", "a2">>, hasNextPage |-> TRUE] }

(***************************************************************************)
(* The embedding cache: mnemonist's LRUMap, most recently used first       *)
(***************************************************************************)

Keys(c) == { c[i].key : i \in 1..Len(c) }

LRUHas(c, k) == k \in Keys(c)

LRUIndex(c, k) == CHOOSE i \in 1..Len(c) : c[i].key = k

\* c without its i-th entry
LRUWithout(c, i) == SubSeq(c, 1, i - 1) \o SubSeq(c, i + 1, Len(c))

\* the value LRUMap.get(k) returns (only asked when present)
LRUValue(c, k) == c[LRUIndex(c, k)].value

\* a get that does not count as a use
LRUGetNoTouch(c, k) == c

\* the cache after LRUMap.get(k): a hit moves the entry to the front
LRUGet(c, k) ==
  IF LRUHas(c, k)
  THEN <<c[LRUIndex(c, k)]>> \o LRUWithout(c, LRUIndex(c, k))
  ELSE c

\* a cache entry; at is history, the time of the entry's last use (see Used)
Entry(k, v) == [key |-> k, value |-> v, at |-> 0]

\* a set that keeps the value a key already has
LRUSetKeepsValue(c, k, v) ==
  IF LRUHas(c, k)
  THEN <<c[LRUIndex(c, k)]>> \o LRUWithout(c, LRUIndex(c, k))
  ELSE IF Len(c) < Capacity
       THEN <<Entry(k, v)>> \o c
       ELSE <<Entry(k, v)>> \o SubSeq(c, 1, Len(c) - 1)

\* a set that never evicts
LRUSetNoEvict(c, k, v) ==
  IF LRUHas(c, k)
  THEN <<Entry(k, v)>> \o LRUWithout(c, LRUIndex(c, k))
  ELSE <<Entry(k, v)>> \o c

\* the cache after LRUMap.set(k, v)
LRUSet(c, k, v) ==
  IF LRUHas(c, k)
  THEN <<Entry(k, v)>> \o LRUWithout(c, LRUIndex(c, k))
  ELSE IF Len(c) < Capacity
       THEN <<Entry(k, v)>> \o c
       ELSE <<Entry(k, v)>> \o SubSeq(c, 1, Len(c) - 1)

\* history: c with time t recorded as the last use of key k
Used(c, k, t) ==
  [i \in 1..Len(c) |-> IF c[i].key = k THEN [c[i] EXCEPT !.at = t] ELSE c[i]]

Digits == <<"0", "1", "2", "3", "4", "5", "6", "7", "8", "9">>

RECURSIVE ToDecimal(_)
\* Number.prototype.toString() of a natural number
ToDecimal(n) ==
  IF n < 10 THEN <<Digits[n + 1]>>
  ELSE ToDecimal(n \div 10) \o <<Digits[(n % 10) + 1]>>

\* const key = machineLearning.clip.modelName + dto.query + dto.language
CacheKey(modelName, query, language) ==
  modelName \o query \o (IF language.def THEN language.val ELSE UndefinedStr)

\* the key an earlier request with query "#<i>" and language "en" left in the cache
FillerKey(i) == CacheKey(ModelM, <<"#">> \o ToDecimal(i), Some(<<"e", "n">>))

\* the cache after n <= Capacity earlier requests stored FillerKey(1), ...,
\* FillerKey(n) in this order: FillerKey(1) is the least recently used
\* (the set of FillerKey(j) happened at time j - n, before the modelled uses)
FilledCache(n) ==
  [i \in 1..n |-> [key |-> FillerKey(n + 1 - i), value |-> V12, at |-> 1 - i]]

(***************************************************************************)
(* State                                                                   *)
(***************************************************************************)

VARIABLES
  cache,             \* this.embeddingCache, most recently used entry first
  uses,              \* history: the keys of the cache hits and sets, in order,
                     \* after the sets that filled the initial cache
  pc,                \* pc[r]: the await request r is suspended at
  req,               \* req[r]: the auth and dto of request r
  machineLearning,   \* machineLearning[r]: the configuration r loaded
  embedding,         \* embedding[r]: the local of lines 153-160
  userIds,           \* userIds[r]: the promise of line 151
  searchEmbeddings,  \* searchEmbeddings[r]: the local of line 172
  calls,             \* history: calls[r], the calls r made and what they resolved with, in order
  result,            \* result[r]: what the call returned or threw
  fnIn,              \* argument of the pure function under check
  fnOut              \* its result

vars == <<cache, uses, pc, req, machineLearning, embedding, userIds,
          searchEmbeddings, calls, result, fnIn, fnOut>>

reqVars == <<cache, uses, pc, req, machineLearning, embedding, userIds,
             searchEmbeddings, calls, result>>

NoInput == [userId |-> "", elevated |-> FALSE, visibility |-> Timeline,
            query |-> <<>>, language |-> None, page |-> None, size |-> None]
NoConfig == [enabled |-> FALSE, modelName |-> <<>>]
NoResult == [status |-> "none"]
NoPromise == [state |-> "none", ids |-> <<>>]

Call(fn, args) == [fn |-> fn, args |-> args]

\* the value an awaited call of fn resolved with, logged when the await resumes
Resolved(fn, value) == [fn |-> fn, args |-> <<value>>]

\* the calls of request r to collaborator fn
CallsTo(r, fn) == SelectSeq(calls[r], LAMBDA c : c.fn = fn)

(***************************************************************************)
(* Helpers of searchSmart                                                  *)
(***************************************************************************)

\* requireElevatedPermission(auth) returns (does not throw)
requireElevatedPermission(auth) == auth.elevated

\* the check of line 142 made for the wrong visibility
NeedsElevationWrongVisibility(d) == d.visibility = Timeline

\* line 142: the request needs the elevated-permission grant
NeedsElevation(d) == d.visibility = Locked

\* isSmartSearchEnabled(machineLearning)
isSmartSearchEnabled(ml) == ml.enabled

\* the test of line 147 without its negation
SmartSearchDisabledInverted(ml) == isSmartSearchEnabled(ml)

\* line 147: !isSmartSearchEnabled(machineLearning)
SmartSearchDisabled(ml) == ~isSmartSearchEnabled(ml)

\* line 161 with the default page 0
PageOfDefaultZero(d) == IF d.page.def THEN d.page.val ELSE 0

\* const page = dto.page ?? 1
PageOf(d) == IF d.page.def THEN d.page.val ELSE 1

\* const size = dto.size || 100
SizeOf(d) == IF d.size.def /\ d.size.val # 0 THEN d.size.val ELSE 100

\* getUserIdsToSearch: [auth.user.id, ...partnerIds]
UserIdsOf(d, partnerIds) == <<d.userId>> \o partnerIds

\* const searchBreakdown = this.parseQuery(dto.query)
searchBreakdown(r) == parseQuery(req[r].query)

\* JavaScript truthiness of a string: the empty string is falsy
StringTruthy(str) == str # <<>>

\* JavaScript truthiness of an array: every array, also the empty one, is truthy
ArrayTruthy(arr) == TRUE

\* line 174: !searchBreakdown.searchText && !searchBreakdown.similarToAssetIds
NotUnderstood(sb) == ~StringTruthy(sb.searchText) /\ ~ArrayTruthy(sb.similarToAssetIds)

\* line 178: if (searchBreakdown.similarToAssetIds)
HasSimilarTo(sb) == ArrayTruthy(sb.similarToAssetIds)

\* line 184: if (searchBreakdown.searchText)
HasSearchText(sb) == StringTruthy(sb.searchText)

\* the key request r computes on line 152
KeyOf(r, ml) == CacheKey(ml.modelName, req[r].query, req[r].language)

\* the text request r hands to encodeText on line 155
EncodedQuery(r) == req[r].query

RECURSIVE SumVec(_)
SumVec(vs) ==
  IF Len(vs) = 1 THEN vs[1]
  ELSE [i \in 1..Len(vs[1]) |-> vs[1][i] + SumVec(Tail(vs))[i]]

\* averageEmbeddings: the elementwise mean
Mean(vs) == [i \in 1..Len(vs[1]) |-> SumVec(vs)[i] \div Len(vs)]

\* the batch results getAssetEmbeddings may return for ids: the stored
\* embeddings of the ids that exist, in the order of the ids; every id exists
\* unless mayMiss
RECURSIVE FetchResults(_, _)
FetchResults(ids, mayMiss) ==
  IF ids = <<>> THEN { <<>> }
  ELSE LET rest == FetchResults(Tail(ids), mayMiss)
           with == { <<StoredEmbedding(Head(ids))>> \o t : t \in rest }
       IN IF mayMiss THEN rest \cup with ELSE with

\* mapResponse(items, nextPage, { auth })
mapResponse(items, nextPage) ==
  [ status |-> "ok",
    albums |-> [total |-> 0, count |-> 0, items |-> <<>>, facets |-> <<>>],
    assets |-> [total |-> Len(items), count |-> Len(items), items |-> items,
                facets |-> <<>>, nextPage |-> nextPage] ]

\* a rejection of the searchSmart promise
Thrown(message) == [status |-> "error", message |-> message]

\* the call of lines 163-166
SearchCall1(r, ids) ==
  Call("searchSmart", <<PageOf(req[r]), SizeOf(req[r]),
                        [awaited |-> TRUE, ids |-> ids], Some(embedding[r])>>)

\* the call of lines 202 and 206: userIds is the promise, not its value
SearchCall2(r, emb) ==
  Call("searchSmart", <<PageOf(req[r]), SizeOf(req[r]),
                        [awaited |-> FALSE, ids |-> userIds[r].ids], emb>>)

\* searchEmbeddings.push(textEmbedding), line 193, at the front instead
UnshiftText(embs, v) == <<v>> \o embs

\* searchEmbeddings.push(textEmbedding), line 193
PushText(embs, v) == Append(embs, v)

\* the test of line 200 with 2 for 1
NeedsAverageOverTwo(embs) == Len(embs) > 1 + 1

\* line 200: searchEmbeddings.length > 1
NeedsAverage(embs) == Len(embs) > 1

\* lines 200-212 up to the next await, with embs the resolved embeddings
Combine(r, embs, log) ==
  /\ searchEmbeddings' = [searchEmbeddings EXCEPT ![r] = embs]
  /\ IF NeedsAverage(embs)
     THEN /\ calls' = [calls EXCEPT ![r] = log \o <<Call("averageEmbeddings", <<embs>>)>>]
          /\ pc' = [pc EXCEPT ![r] = "averageEmbeddings"]
     ELSE /\ calls' = [calls EXCEPT ![r] = log \o
                <<SearchCall2(r, IF embs = <<>> THEN None ELSE Some(embs[1]))>>]
          /\ pc' = [pc EXCEPT ![r] = "searchSmart2"]

(***************************************************************************)
(* searchSmart, one action per stretch between two awaits                  *)
(***************************************************************************)

\* lines 141-146: the call, up to `await this.getConfig`
SearchSmart(r, E) ==
  /\ pc[r] = "idle"
  /\ \E in \in E.inputs :
       /\ req' = [req EXCEPT ![r] = in]
       /\ IF NeedsElevation(in) /\ ~requireElevatedPermission(in)
          THEN /\ result' = [result EXCEPT ![r] = Thrown("InsufficientPermission")]
               /\ pc' = [pc EXCEPT ![r] = "failed"]
               /\ calls' = calls
          ELSE /\ calls' = [calls EXCEPT ![r] = @ \o <<Call("getConfig", <<>>)>>]
               /\ pc' = [pc EXCEPT ![r] = "getConfig"]
               /\ result' = result
  /\ UNCHANGED <<cache, uses, machineLearning, embedding, userIds,
                 searchEmbeddings, fnIn, fnOut>>

\* lines 146-155: getConfig resolved, up to `await encodeText` or `await userIds`
ConfigLoaded(r, E) ==
  /\ pc[r] = "getConfig"
  /\ \E ml \in E.configs :
       /\ machineLearning' = [machineLearning EXCEPT ![r] = ml]
       /\ IF SmartSearchDisabled(ml)
          THEN /\ result' = [result EXCEPT ![r] = Thrown("Smart search is not enabled")]
               /\ pc' = [pc EXCEPT ![r] = "failed"]
               /\ UNCHANGED <<cache, uses, embedding, userIds, calls>>
          ELSE LET key == KeyOf(r, ml)
                   dir == Call("getMyPartnerIds", <<req[r].userId>>)
               IN /\ userIds' = [userIds EXCEPT ![r] = [state |-> "pending", ids |-> <<>>]]
                  /\ cache' = Used(LRUGet(cache, key), key, Len(uses) + 1)
                  /\ result' = result
                  /\ IF LRUHas(cache, key)
                     THEN /\ uses' = Append(uses, key)
                          /\ embedding' = [embedding EXCEPT ![r] = LRUValue(cache, key)]
                          /\ calls' = [calls EXCEPT ![r] = @ \o
                               <<dir, Call("cache.get", <<key, TRUE>>)>>]
                          /\ pc' = [pc EXCEPT ![r] = "userIds"]
                     ELSE /\ uses' = uses
                          /\ embedding' = embedding
                          /\ calls' = [calls EXCEPT ![r] = @ \o
                               <<dir, Call("cache.get", <<key, FALSE>>),
                                 Call("encodeText", <<EncodedQuery(r), ml.modelName,
                                                      req[r].language>>)>>]
                          /\ pc' = [pc EXCEPT ![r] = "encodeText1"]
  /\ UNCHANGED <<req, searchEmbeddings, fnIn, fnOut>>

\* lines 155-165: encodeText resolved, the cache is written, up to `await userIds`
Encoded1(r, E) ==
  /\ pc[r] = "encodeText1"
  /\ \E v \in E.vectors :
       LET key == KeyOf(r, machineLearning[r]) IN
       /\ embedding' = [embedding EXCEPT ![r] = v]
       /\ cache' = Used(LRUSet(cache, key, v), key, Len(uses) + 1)
       /\ uses' = Append(uses, key)
       /\ calls' = [calls EXCEPT ![r] = @ \o <<Call("cache.set", <<key, v>>)>>]
  /\ pc' = [pc EXCEPT ![r] = "userIds"]
  /\ UNCHANGED <<req, machineLearning, userIds, searchEmbeddings, result, fnIn, fnOut>>

\* lines 163-166: the directory answered, `await userIds` resumes, the index is queried
UserIdsResolved(r, E) ==
  /\ pc[r] = "userIds"
  /\ \E partnerIds \in E.partnerLists :
       LET ids == UserIdsOf(req[r], partnerIds) IN
       /\ userIds' = [userIds EXCEPT ![r] = [state |-> "resolved", ids |-> ids]]
       /\ calls' = [calls EXCEPT ![r] = @ \o <<SearchCall1(r, ids)>>]
  /\ pc' = [pc EXCEPT ![r] = "searchSmart1"]
  /\ UNCHANGED <<cache, uses, req, machineLearning, embedding, searchEmbeddings,
                 result, fnIn, fnOut>>

\* lines 163-179: the first index query resolved (its answer is dropped by
\* lines 168-169), the query is parsed, up to `await getAssetEmbeddings`
Searched1(r, E) ==
  /\ pc[r] = "searchSmart1"
  /\ \E res \in E.results :
       LET sb == searchBreakdown(r)
           log == calls[r] \o <<Resolved("searchSmart.resolved", res)>>
       IN
       IF NotUnderstood(sb)
       THEN /\ result' = [result EXCEPT ![r] = Thrown("Search term is not understood")]
            /\ pc' = [pc EXCEPT ![r] = "failed"]
            /\ calls' = [calls EXCEPT ![r] = log]
            /\ UNCHANGED searchEmbeddings
       ELSE IF HasSimilarTo(sb)
       THEN /\ calls' = [calls EXCEPT ![r] = log \o
                  <<Call("getAssetEmbeddings", <<sb.similarToAssetIds>>)>>]
            /\ pc' = [pc EXCEPT ![r] = "getAssetEmbeddings"]
            /\ UNCHANGED <<result, searchEmbeddings>>
       ELSE IF HasSearchText(sb)
       THEN /\ calls' = [calls EXCEPT ![r] = log \o
                  <<Call("encodeText", <<sb.searchText, machineLearning[r].modelName,
                                         req[r].language>>)>>]
            /\ pc' = [pc EXCEPT ![r] = "encodeText2"]
            /\ UNCHANGED <<result, searchEmbeddings>>
       ELSE /\ Combine(r, <<>>, log)
            /\ UNCHANGED result
  /\ UNCHANGED <<cache, uses, req, machineLearning, embedding, userIds, fnIn, fnOut>>

\* lines 179-185: the batch fetch resolved, up to the next await
Fetched(r, E) ==
  /\ pc[r] = "getAssetEmbeddings"
  /\ \E embs \in FetchResults(searchBreakdown(r).similarToAssetIds, E.mayMiss) :
       LET log == calls[r] \o <<Resolved("getAssetEmbeddings.resolved", embs)>> IN
       IF HasSearchText(searchBreakdown(r))
       THEN /\ searchEmbeddings' = [searchEmbeddings EXCEPT ![r] = embs]
            /\ calls' = [calls EXCEPT ![r] = log \o
                 <<Call("encodeText", <<searchBreakdown(r).searchText,
                                        machineLearning[r].modelName, req[r].language>>)>>]
            /\ pc' = [pc EXCEPT ![r] = "encodeText2"]
       ELSE Combine(r, embs, log)
  /\ UNCHANGED <<cache, uses, req, machineLearning, embedding, userIds, result,
                 fnIn, fnOut>>

\* lines 185-206: the text is encoded (no cache), up to the next await
Encoded2(r, E) ==
  /\ pc[r] = "encodeText2"
  /\ \E v \in E.textVectors :
       Combine(r, PushText(searchEmbeddings[r], v),
               calls[r] \o <<Resolved("encodeText.resolved", v)>>)
  /\ UNCHANGED <<cache, uses, req, machineLearning, embedding, userIds, result,
                 fnIn, fnOut>>

\* lines 201-202: the mean arrived, the index is queried with it
Averaged(r, E) ==
  /\ pc[r] = "averageEmbeddings"
  /\ LET mean == Mean(searchEmbeddings[r]) IN
     calls' = [calls EXCEPT ![r] = @ \o
       <<Resolved("averageEmbeddings.resolved", mean), SearchCall2(r, Some(mean))>>]
  /\ pc' = [pc EXCEPT ![r] = "searchSmart2"]
  /\ UNCHANGED <<cache, uses, req, machineLearning, embedding, userIds,
                 searchEmbeddings, result, fnIn, fnOut>>

\* lines 202-214: the second index query resolved, the response is mapped
Searched2(r, E) ==
  /\ pc[r] = "searchSmart2"
  /\ \E res \in E.results :
       /\ calls' = [calls EXCEPT ![r] = @ \o <<Resolved("searchSmart.resolved", res)>>]
       /\ result' = [result EXCEPT ![r] =
            mapResponse(res.items,
                        IF res.hasNextPage THEN Some(ToDecimal(PageOf(req[r]) + 1))
                        ELSE None)]
  /\ pc' = [pc EXCEPT ![r] = "done"]
  /\ UNCHANGED <<cache, uses, req, machineLearning, embedding, userIds,
                 searchEmbeddings, fnIn, fnOut>>

\* the awaits of searchSmart on a collaborator, by the pc label that waits
Awaits == {"getConfig", "encodeText1", "userIds", "searchSmart1",
           "getAssetEmbeddings", "encodeText2", "averageEmbeddings", "searchSmart2"}

\* the error a collaborator rejected with, named by the await that rethrows it
Rejection(at) == [status |-> "error", message |-> at]

\* an await that swallows the rejection and goes on waiting
AwaitRejectedWaitsOn(at) == at

\* where searchSmart is after an awaited promise rejected: no try/catch
\* encloses any await, the exception leaves the function
AwaitRejected(at) == "failed"

\* any await of lines 146-206: the awaited collaborator call rejects
Rejected(r, E) ==
  /\ pc[r] \in E.rejects
  /\ result' = [result EXCEPT ![r] = Rejection(pc[r])]
  /\ pc' = [pc EXCEPT ![r] = AwaitRejected(pc[r])]
  /\ UNCHANGED <<cache, uses, req, machineLearning, embedding, userIds,
                 searchEmbeddings, calls, fnIn, fnOut>>

InitRequests ==
  /\ pc = [r \in Requests |-> "idle"]
  /\ req = [r \in Requests |-> NoInput]
  /\ machineLearning = [r \in Requests |-> NoConfig]
  /\ embedding = [r \in Requests |-> <<>>]
  /\ userIds = [r \in Requests |-> NoPromise]
  /\ searchEmbeddings = [r \in Requests |-> <<>>]
  /\ calls = [r \in Requests |-> <<>>]
  /\ result = [r \in Requests |-> NoResult]

\* the service after construction, or after Prefill earlier requests
Init ==
  /\ \E n \in {0, Prefill} :
       cache = FilledCache(n)
  /\ uses = <<>>
  /\ InitRequests
  /\ fnIn = <<>>
  /\ fnOut = <<>>

\* one request against all inputs and all collaborator answers
Single ==
  [inputs |-> RequestInputs, configs |-> Configs, vectors |-> Vectors,
   textVectors |-> Vectors,
   partnerLists |-> PartnerLists, results |-> SearchResults, mayMiss |-> TRUE,
   rejects |-> Awaits]

\* concurrent requests: fewer inputs, smart search enabled, every asset
\* exists, one answer of the second encoder call, and of the collaborators
\* only the first encoder call may fail
Concurrent ==
  [inputs |-> { Input(FALSE, Timeline, q, None) : q \in {QText, QTwoRefs} },
   configs |-> { c \in Configs : c.enabled }, vectors |-> Vectors,
   textVectors |-> { V34 },
   partnerLists |-> { <<"u2">> },
   results |-> { res \in SearchResults : Len(res.items) = 1 }, mayMiss |-> FALSE,
   rejects |-> {"encodeText1"}]

Next ==
  \E r \in Requests :
    \/ SearchSmart(r, Concurrent)
    \/ ConfigLoaded(r, Concurrent)
    \/ Encoded1(r, Concurrent)
    \/ UserIdsResolved(r, Concurrent)
    \/ Searched1(r, Concurrent)
    \/ Fetched(r, Concurrent)
    \/ Encoded2(r, Concurrent)
    \/ Averaged(r, Concurrent)
    \/ Searched2(r, Concurrent)
    \/ Rejected(r, Concurrent)

\* NumReq requests, interleaved at every await
Spec == Init /\ [][Next]_vars

\* the cache when a single request arrives: new, or holding earlier entries,
\* among them possibly the entry of an earlier request for QText
InitSingle ==
  /\ \/ /\ \E n \in {0, Prefill} :
             cache = FilledCache(n)
        /\ uses = <<>>
     \/ /\ \E v \in Vectors :
             cache = Used(LRUSet(FilledCache(Prefill), CacheKey(ModelM, QText, None), v),
                          CacheKey(ModelM, QText, None), 1)
        /\ uses = <<CacheKey(ModelM, QText, None)>>
  /\ InitRequests
  /\ fnIn = <<>>
  /\ fnOut = <<>>

NextSingle ==
  \E r \in {1} :
    \/ SearchSmart(r, Single)
    \/ ConfigLoaded(r, Single)
    \/ Encoded1(r, Single)
    \/ UserIdsResolved(r, Single)
    \/ Searched1(r, Single)
    \/ Fetched(r, Single)
    \/ Encoded2(r, Single)
    \/ Averaged(r, Single)
    \/ Searched2(r, Single)
    \/ Rejected(r, Single)

\* one request, every input and every collaborator answer
SpecSingle == InitSingle /\ [][NextSingle]_vars

(***************************************************************************)
(* The cache alone: get and set in any order on a nearly full cache        *)
(***************************************************************************)

\* get and set operations applied after the Prefill earlier sets
MaxCacheOps == 3

\* the keys the operations use: old entries and keys not yet stored
ProbeKeys == { FillerKey(i) : i \in {1, 2, 3, Prefill + 1, Prefill + 2, Prefill + 3} }

\* this.embeddingCache.get(key), line 153
CacheGet(k) ==
  /\ Len(uses) < MaxCacheOps
  /\ cache' = Used(LRUGet(cache, k), k, Len(uses) + 1)
  /\ uses' = IF LRUHas(cache, k) THEN Append(uses, k) ELSE uses
  /\ UNCHANGED <<pc, req, machineLearning, embedding, userIds, searchEmbeddings,
                 calls, result, fnIn, fnOut>>

\* this.embeddingCache.set(key, embedding), line 159
CacheSet(k, v) ==
  /\ Len(uses) < MaxCacheOps
  /\ cache' = Used(LRUSet(cache, k, v), k, Len(uses) + 1)
  /\ uses' = Append(uses, k)
  /\ UNCHANGED <<pc, req, machineLearning, embedding, userIds, searchEmbeddings,
                 calls, result, fnIn, fnOut>>

InitCache ==
  /\ cache = FilledCache(Prefill)
  /\ uses = <<>>
  /\ InitRequests
  /\ fnIn = <<>>
  /\ fnOut = <<>>

NextCache ==
  \/ \E k \in ProbeKeys : CacheGet(k)
  \/ \E k \in ProbeKeys, v \in Vectors : CacheSet(k, v)

SpecCache == InitCache /\ [][NextCache]_vars

(***************************************************************************)
(* The pure functions: the cache key and parseQuery                        *)
(***************************************************************************)

NotRun == [done |-> FALSE]
Ran(v) == [done |-> TRUE, val |-> v]

KeyModels == { <<"m">>, <<"m", "a">> }
KeyQueries == { <<"a">>, <<"a", "a">>, <<"a", "b">> }
KeyLanguages == { None, Some(UndefinedStr), Some(<<"b">>), Some(<<"a", "b">>) }
KeyTriples ==
  { [modelName |-> m, query |-> q, language |-> l] :
      m \in KeyModels, q \in KeyQueries, l \in KeyLanguages }

\* line 152 for two requests
ComputeKeys ==
  /\ fnOut = NotRun
  /\ fnOut' = Ran(<<CacheKey(fnIn[1].modelName, fnIn[1].query, fnIn[1].language),
                    CacheKey(fnIn[2].modelName, fnIn[2].query, fnIn[2].language)>>)
  /\ UNCHANGED <<reqVars, fnIn>>

InitKey ==
  /\ cache = <<>>
  /\ uses = <<>>
  /\ InitRequests
  /\ fnIn \in KeyTriples \X KeyTriples
  /\ fnOut = NotRun

SpecKey == InitKey /\ [][ComputeKeys]_vars

\* pieces a prefix or a suffix is made of
MaxAffix == 1
\* pieces an id is made of
MaxId == 1

AffixPieces == { SimilarToLit, SimilarToUpper, <<"a">>, <<" ">>, <<",">> }
IdPieces == { SimilarToLit, <<"a">>, <<"b">>, <<",">> }

\* the concatenations of at most n pieces
RECURSIVE Strings(_, _)
Strings(pieces, n) ==
  IF n = 0 THEN { <<>> }
  ELSE LET shorter == Strings(pieces, n - 1) IN
       shorter \cup { x \o y : x \in shorter, y \in pieces }

\* prefix + "similarTo:" + id1 + " " + "similarTo:" + id2 + suffix
Constructed(in) ==
  in.prefix \o SimilarToLit \o in.id1 \o <<" ">> \o SimilarToLit \o in.id2 \o in.suffix

\* parseQuery applied to the constructed text
ParseConstructed ==
  /\ fnOut = NotRun
  /\ fnOut' = Ran(parseQuery(Constructed(fnIn)))
  /\ UNCHANGED <<reqVars, fnIn>>

InitParse ==
  /\ cache = <<>>
  /\ uses = <<>>
  /\ InitRequests
  /\ fnIn \in [prefix : Strings(AffixPieces, MaxAffix), id1 : Strings(IdPieces, MaxId),
               id2 : Strings(IdPieces, MaxId), suffix : Strings(AffixPieces, MaxAffix)]
  /\ fnOut = NotRun

SpecParse == InitParse /\ [][ParseConstructed]_vars

\* pieces a query text is made of
MaxText == 4

TextPieces == { <<"a">>, <<" ">>, <<",">>, SimilarToLit \o <<"x">> }

\* parseQuery applied to the text
ParseText ==
  /\ fnOut = NotRun
  /\ fnOut' = Ran(parseQuery(fnIn))
  /\ UNCHANGED <<reqVars, fnIn>>

InitText ==
  /\ cache = <<>>
  /\ uses = <<>>
  /\ InitRequests
  /\ fnIn \in Strings(TextPieces, MaxText)
  /\ fnOut = NotRun

SpecText == InitText /\ [][ParseText]_vars

(***************************************************************************)
(* Properties                                                              *)
(***************************************************************************)

Started(r) == pc[r] # "idle"
Finished(r) == pc[r] \in {"done", "failed"}

\* r ended with the rejection of a collaborator call
CollaboratorFailed(r) == result[r] \in { Rejection(at) : at \in Awaits }

\* the step removes exactly one entry of the cache, and every other entry
\* was used (got or set) later than it
RemovesLeastRecentlyUsed ==
  LET kept == Keys(cache') IN
  \E i \in 1..Len(cache) :
    /\ cache[i].key \notin kept
    /\ \A j \in 1..Len(cache) :
         j # i => (cache[j].at > cache[i].at /\ cache[j].key \in kept)

\* the parse of r's query has neither text nor references
ParsesToNothing(r) ==
  /\ searchBreakdown(r).searchText = <<>>
  /\ searchBreakdown(r).similarToAssetIds = <<>>

\* r found its key in the cache on line 153
CacheHit(r) == \E i \in 1..Len(calls[r]) :
  calls[r][i].fn = "cache.get" /\ calls[r][i].args[2]

\* C1: a request with visibility LOCKED and no elevated-permission grant
\* fails with InsufficientPermission, having called no collaborator and
\* neither read nor written the embedding cache.
C1_LockedWithoutGrantFailsFirst ==
  \A r \in Requests :
    (Started(r) /\ req[r].visibility = Locked /\ ~req[r].elevated)
      => /\ pc[r] = "failed"
         /\ result[r] = Thrown("InsufficientPermission")
         /\ calls[r] = <<>>
         /\ machineLearning[r] = NoConfig
         /\ userIds[r] = NoPromise

C1_Witness ==
  \E r \in Requests :
    /\ req[r].visibility = Locked /\ ~req[r].elevated
    /\ result[r] = Thrown("InsufficientPermission")

\* C2: when the loaded configuration has smart search disabled the request
\* fails with 'Smart search is not enabled', and getConfig is the only call
\* it made: no encoder, fetch, directory or index call, no cache access.
C2_DisabledFeatureFails ==
  \A r \in Requests :
    (machineLearning[r] \in Configs /\ ~machineLearning[r].enabled)
      => /\ pc[r] = "failed"
         /\ result[r] = Thrown("Smart search is not enabled")
         /\ calls[r] = <<Call("getConfig", <<>>)>>
         /\ userIds[r] = NoPromise

C2_Witness ==
  \E r \in Requests :
    /\ machineLearning[r] \in Configs /\ ~machineLearning[r].enabled
    /\ result[r] = Thrown("Smart search is not enabled")

\* C3: a request whose query parses to an empty searchText and an empty
\* reference list, and that passed the permission and feature checks, ends
\* (unless a collaborator failed) with 'Search term is not understood' and
\* returns no result.
C3_EmptyQueryFails ==
  \A r \in Requests :
    (Finished(r) /\ ParsesToNothing(r) /\ machineLearning[r] \in Configs
       /\ machineLearning[r].enabled /\ ~CollaboratorFailed(r))
      => result[r] = Thrown("Search term is not understood")

\* C4: a request that finds its key in the cache (an earlier request with
\* the same model, text and language stored it and it was not evicted)
\* makes no encodeText call.
C4_CacheHitAvoidsEncode ==
  \A r \in Requests : CacheHit(r) => CallsTo(r, "encodeText") = <<>>

\* Capacity + 1 distinct keys set one after the other, with no get
OverfullUses == [i \in 1..(Capacity + 1 - Prefill) |-> FillerKey(Prefill + i)]

\* the last Capacity of them
OverfullKeys == { FillerKey(i) : i \in 2..(Capacity + 1) }

\* the step uses a key the cache did not hold: it stores a new key
NewKeyStored ==
  /\ Len(uses') = Len(uses) + 1
  /\ \A j \in 1..Len(cache) : cache[j].key # uses'[Len(uses')]

\* C5: inserting a new key into a full cache removes exactly the key whose
\* last get or set is the oldest; after Capacity + 1 distinct keys were set
\* with no get, the first is gone and the other Capacity are retrievable.
C5_EvictsLeastRecentlyUsed ==
  [][ /\ (Len(cache) = Capacity /\ NewKeyStored)
           => RemovesLeastRecentlyUsed
      /\ uses' = OverfullUses => Keys(cache') = OverfullKeys ]_vars

C5_Witness ==
  /\ Len(cache) = Capacity
  /\ LRUHas(cache, FillerKey(1))
  /\ ~LRUHas(cache, FillerKey(2))
  /\ LRUHas(cache, FillerKey(Prefill + 1))

\* C6: under every interleaving of the requests the cache holds at most
\* Capacity entries, holds no key twice, and loses an entry only when a new
\* key is set into the full cache and the entry is the least recently used.
C6_CacheSafeUnderInterleaving ==
  [][ IF Len(uses') = Len(uses)
        THEN cache' = cache
        ELSE LET old == Keys(cache)
                 new == Keys(cache')
             IN /\ Len(cache) <= Capacity /\ Cardinality(old) = Len(cache)
                /\ Len(cache') <= Capacity /\ Cardinality(new) = Len(cache')
                /\ old \ new # {}
                     => /\ Len(cache) = Capacity
                        /\ NewKeyStored
                        /\ RemovesLeastRecentlyUsed ]_vars

C6_Witness ==
  /\ Len(cache) = Capacity
  /\ ~LRUHas(cache, FillerKey(1))
  /\ \E r1, r2 \in Requests :
       /\ r1 # r2
       /\ LRUHas(cache, KeyOf(r1, machineLearning[r1]))
       /\ LRUHas(cache, KeyOf(r2, machineLearning[r2]))
       /\ KeyOf(r1, machineLearning[r1]) # KeyOf(r2, machineLearning[r2])
       /\ ~Finished(r1) /\ ~Finished(r2)

\* the vector the k-th searchSmart call of r carries
QueryVector(r, k) == CallsTo(r, "searchSmart")[k].args[4]

\* C7: a request that completes successfully issued exactly one
\* nearest-neighbour query, carrying the combination of the embeddings
\* resolved from the parsed query.
C7_OneIndexQuery ==
  \A r \in Requests :
    pc[r] = "done"
      => /\ Len(CallsTo(r, "searchSmart")) = 1
         /\ searchEmbeddings[r] # <<>>
         /\ QueryVector(r, 1) = Some(IF Len(searchEmbeddings[r]) = 1
                                     THEN searchEmbeddings[r][1]
                                     ELSE Mean(searchEmbeddings[r]))

\* C8: every encodeText call carries the parsed, non-empty searchText, and
\* the cache is asked for the key built from that searchText.
C8_EncodesParsedText ==
  \A r \in Requests :
    /\ \A i \in 1..Len(calls[r]) :
         /\ calls[r][i].fn = "encodeText"
              => /\ calls[r][i].args[1] = searchBreakdown(r).searchText
                 /\ searchBreakdown(r).searchText # <<>>
         /\ calls[r][i].fn = "cache.get"
              => calls[r][i].args[1] =
                   CacheKey(machineLearning[r].modelName,
                            searchBreakdown(r).searchText, req[r].language)

\* C9: two (modelName, query, language) triples that differ in a component
\* have different cache keys.
C9_KeyInjective ==
  (fnOut.done /\ fnIn[1] # fnIn[2]) => fnOut.val[1] # fnOut.val[2]

\* a case-insensitive occurrence of similarTo: in s
HasLiteral(s) ==
  \E p \in 1..Len(s) :
    /\ p + 9 <= Len(s)
    /\ \A j \in 1..10 : LowerChar(s[p + j - 1]) = LowerChar(SimilarToLit[j])

\* C10 as stated: for every prefix, every suffix and all (non-empty)
\* whitespace-free ids the references parsed from the constructed text are
\* [id1, id2].
C10_AnyAffix ==
  (fnOut.done /\ fnIn.id1 # <<>> /\ fnIn.id2 # <<>>)
    => fnOut.val.similarToAssetIds = <<fnIn.id1, fnIn.id2>>

\* C10: for non-empty whitespace-free ids, a prefix and a suffix without any
\* case-insensitive occurrence of similarTo:, and a suffix that is empty or
\* begins with whitespace, the references parsed from the constructed text
\* are [id1, id2], in this order, duplicates kept.
C10_ReferencesExtracted ==
  ( /\ fnOut.done
    /\ fnIn.id1 # <<>> /\ fnIn.id2 # <<>>
    /\ ~HasLiteral(fnIn.prefix) /\ ~HasLiteral(fnIn.suffix)
    /\ (fnIn.suffix = <<>> \/ IsSpace(fnIn.suffix[1])) )
  => fnOut.val.similarToAssetIds = <<fnIn.id1, fnIn.id2>>

C10_Witness ==
  /\ fnOut.done
  /\ fnIn.id1 = fnIn.id2 /\ fnIn.id1 # <<>>
  /\ fnIn.prefix # <<>> /\ fnIn.suffix # <<>>
  /\ ~HasLiteral(fnIn.prefix) /\ ~HasLiteral(fnIn.suffix)
  /\ IsSpace(fnIn.suffix[1])
  /\ fnOut.val.similarToAssetIds = <<fnIn.id1, fnIn.id1>>

\* the scope the k-th searchSmart call of r carries
QueryScope(r, k) == CallsTo(r, "searchSmart")[k].args[3]

\* C11: every index query of a request carries as its scope the awaited
\* result of the directory lookup, the requesting user's id followed by the
\* partner ids; none carries an unresolved or missing scope.
C11_ScopeJoinedBeforeQuery ==
  \A r \in Requests :
    \A k \in 1..Len(CallsTo(r, "searchSmart")) :
      /\ userIds[r].state = "resolved"
      /\ QueryScope(r, k).awaited
      /\ QueryScope(r, k).ids = userIds[r].ids
      /\ \E partnerIds \in PartnerLists :
           QueryScope(r, k).ids = <<req[r].userId>> \o partnerIds

\* what the index answered to r's queries, in order
IndexAnswers(r) == CallsTo(r, "searchSmart.resolved")

\* the answer the response of r is built from
LastAnswer(r) == IndexAnswers(r)[Len(IndexAnswers(r))].args[1]

\* C12: every index query carries page = dto.page, or 1 when absent, and
\* size = dto.size, or 100 when absent; the response of a successful request
\* has nextPage = decimal string of page + 1 exactly when the index answered
\* hasNextPage and null otherwise, an empty albums facet, and assets.total =
\* assets.count = number of items the index returned.
C12_PagingAndResponse ==
  \A r \in Requests :
    LET page == IF req[r].page.def THEN req[r].page.val ELSE 1
        size == IF req[r].size.def THEN req[r].size.val ELSE 100
    IN /\ \A k \in 1..Len(CallsTo(r, "searchSmart")) :
            /\ CallsTo(r, "searchSmart")[k].args[1] = page
            /\ CallsTo(r, "searchSmart")[k].args[2] = size
       /\ pc[r] = "done"
            => /\ result[r].status = "ok"
               /\ result[r].assets.nextPage =
                    (IF LastAnswer(r).hasNextPage THEN Some(ToDecimal(page + 1)) ELSE None)
               /\ result[r].albums.items = <<>>
               /\ result[r].albums.total = 0 /\ result[r].albums.count = 0
               /\ result[r].assets.items = LastAnswer(r).items
               /\ result[r].assets.total = Len(LastAnswer(r).items)
               /\ result[r].assets.count = Len(LastAnswer(r).items)

C12_Witness ==
  \E r \in Requests :
    /\ pc[r] = "done"
    /\ req[r].page = Some(2) /\ req[r].size = Some(5)
    /\ CallsTo(r, "searchSmart")[2].args[1] = 2
    /\ CallsTo(r, "searchSmart")[2].args[2] = 5
    /\ LastAnswer(r).hasNextPage
    /\ result[r].assets.nextPage = Some(<<"3">>)
    /\ result[r].assets.count = 2

\* the step runs line 174 for r: the first index query resolved and
\* searchSmart went on
ChecksUnderstood(r) == pc[r] = "searchSmart1" /\ calls'[r] # calls[r]

\* the calls that resolve or use embeddings
ResolutionWork == {"encodeText", "getAssetEmbeddings", "cache.set", "searchSmart"}

\* C13: when a request makes the QueryNotUnderstood check it has made no
\* encodeText call, no getAssetEmbeddings call, no cache write and no index
\* query.
C13_CheckBeforeResolution ==
  [][ \A r \in Requests :
        ChecksUnderstood(r)
          => \A i \in 1..Len(calls[r]) : calls[r][i].fn \notin ResolutionWork ]_vars

\* C14: a request calls getAssetEmbeddings only when its parsed reference
\* list is non-empty, and a request that completes with a non-empty list
\* called it exactly once, with the whole list; a text-only query triggers
\* no fetch.
C14_FetchIffReferences ==
  \A r \in Requests :
    LET ids == searchBreakdown(r).similarToAssetIds
        fetches == CallsTo(r, "getAssetEmbeddings")
    IN /\ ids = <<>> => fetches = <<>>
       /\ Len(fetches) <= 1
       /\ (pc[r] = "done" /\ ids # <<>>)
            => fetches = <<Call("getAssetEmbeddings", <<ids>>)>>

\* r is past line 200: the resolved embeddings are being combined or used
Combining(r) == pc[r] \in {"averageEmbeddings", "searchSmart2", "done"}

\* C15: the combine step is never reached with zero embeddings, and no
\* index query carries an absent (undefined) query vector.
C15_NeverZeroEmbeddings ==
  \A r \in Requests :
    /\ Combining(r) => searchEmbeddings[r] # <<>>
    /\ \A k \in 1..Len(CallsTo(r, "searchSmart")) : QueryVector(r, k).def

\* the sum of the i-th components of the vectors vs
RECURSIVE Total(_, _)
Total(vs, i) == IF vs = <<>> THEN 0 ELSE Head(vs)[i] + Total(Tail(vs), i)

\* v is the elementwise arithmetic mean of the vectors vs
IsMeanOf(v, vs) ==
  /\ Len(v) = Len(vs[1])
  /\ \A i \in 1..Len(v) : Len(vs) * v[i] = Total(vs, i)

\* r has issued the index query that follows the combine step
Queried(r) == pc[r] \in {"searchSmart2", "done"}

\* the vector of that query
CombinedVector(r) == QueryVector(r, Len(CallsTo(r, "searchSmart")))

\* C16: with exactly one resolved embedding averageEmbeddings is not called
\* and the index query after the combine step carries that embedding
\* unchanged; with more than one averageEmbeddings is called exactly once,
\* over all resolved embeddings, and the query carries its result, their
\* elementwise mean.
C16_CombinerIdentityOrMean ==
  \A r \in Requests :
    LET embs == searchEmbeddings[r]
        averages == CallsTo(r, "averageEmbeddings")
    IN /\ (Combining(r) /\ Len(embs) = 1)
            => /\ averages = <<>>
               /\ Queried(r) => CombinedVector(r) = Some(embs[1])
       /\ (Combining(r) /\ Len(embs) > 1)
            => /\ averages = <<Call("averageEmbeddings", <<embs>>)>>
               /\ Queried(r)
                    => /\ CombinedVector(r).def
                       /\ IsMeanOf(CombinedVector(r).val, embs)
                       /\ CallsTo(r, "averageEmbeddings.resolved")
                            = <<Resolved("averageEmbeddings.resolved",
                                         CombinedVector(r).val)>>

\* [[1, 2], [3, 4]] -> [2, 3], in the fixed point of V12 and V34
C16_Witness ==
  \E r \in Requests :
    /\ pc[r] = "done"
    /\ searchEmbeddings[r] = <<V12, V34>>
    /\ Len(CallsTo(r, "averageEmbeddings")) = 1
    /\ CombinedVector(r) = Some(<<120, 180>>)

\* the vectors the batch fetch of r returned, in the order returned
FetchedVectors(r) ==
  LET answers == CallsTo(r, "getAssetEmbeddings.resolved")
  IN IF answers = <<>> THEN <<>> ELSE answers[1].args[1]

\* the vectors the encoder returned for the parsed text of r
TextVectors(r) ==
  LET answers == CallsTo(r, "encodeText.resolved")
  IN [i \in 1..Len(answers) |-> answers[i].args[1]]

\* C17: the embeddings a request resolved are the vectors the batch fetch
\* returned, in the order returned, followed by the text-derived vector, of
\* which there is one when the parsed text is non-empty and none otherwise.
C17_ReferencesBeforeText ==
  \A r \in Requests :
    Combining(r)
      => /\ searchEmbeddings[r] = FetchedVectors(r) \o TextVectors(r)
         /\ Len(TextVectors(r)) <= 1
         /\ (TextVectors(r) # <<>>) = (searchBreakdown(r).searchText # <<>>)

C17_Witness ==
  \E r \in Requests :
    /\ pc[r] = "done"
    /\ FetchedVectors(r) = <<V12>>
    /\ TextVectors(r) = <<V34>>
    /\ searchEmbeddings[r] = <<V12, V34>>

\* the text left when the similarTo: patterns are removed
Remaining(s) == RemoveMatches(s, ExecAll(s, 1))

\* the last position of s that holds no whitespace, 0 when there is none
LastNonSpace(s) ==
  LET ns == {p \in 1..Len(s) : ~IsSpace(s[p])}
  IN IF ns = {} THEN 0 ELSE CHOOSE p \in ns : \A p2 \in ns : p >= p2

\* s without its trailing comma and the whitespace around that comma
StripOneTrailingComma(s) ==
  LET p == LastNonSpace(s)
  IN IF p > 0 /\ s[p] = ","
     THEN SubSeq(s, 1, LastNonSpace(SubSeq(s, 1, p - 1)))
     ELSE s

\* s has no extra whitespace and no trailing comma
IsClean(s) ==
  /\ s = <<>> \/ (~IsSpace(s[1]) /\ ~IsSpace(s[Len(s)]) /\ s[Len(s)] # ",")
  /\ \A p \in 1..(Len(s) - 1) : ~(IsSpace(s[p]) /\ IsSpace(s[p + 1]))

\* C18: the searchText of parseQuery is the text left after the similarTo:
\* patterns are removed, with at most one trailing comma (and the whitespace
\* around it) stripped, runs of whitespace collapsed to one space, trimmed:
\* a remaining text ending in two commas keeps one, and a clean text without
\* references is returned unchanged.
C18_SingleTrailingComma ==
  fnOut.done
    => /\ fnOut.val.searchText =
            Trim(CollapseSpaces(StripOneTrailingComma(Remaining(fnIn))))
       /\ (fnOut.val.similarToAssetIds = <<>> /\ IsClean(fnIn))
            => fnOut.val.searchText = fnIn

\* the collaborator call an await waits for
AwaitedCall(at) ==
  CASE at = "getConfig" -> "getConfig"
    [] at \in {"encodeText1", "encodeText2"} -> "encodeText"
    [] at = "userIds" -> "getMyPartnerIds"
    [] at \in {"searchSmart1", "searchSmart2"} -> "searchSmart"
    [] at = "getAssetEmbeddings" -> "getAssetEmbeddings"
    [] at = "averageEmbeddings" -> "averageEmbeddings"

\* the last entry of r's log
LastCall(r) == calls[r][Len(calls[r])]

\* C19: a request whose collaborator call failed has failed with that
\* failure and returned no response; the failed call is the last thing it
\* did (no retry, no later step; the directory lookup, which runs beside
\* the encoding, is followed by no index query), and after a failure of the
\* cached encodeText the request has written nothing to the cache.
C19_FailurePropagates ==
  \A r \in Requests : \A at \in Awaits :
    result[r] = Rejection(at)
      => /\ pc[r] = "failed"
         /\ IF at = "userIds"
            THEN /\ Len(CallsTo(r, "getMyPartnerIds")) = 1
                 /\ CallsTo(r, "searchSmart") = <<>>
                 /\ CallsTo(r, "getAssetEmbeddings") = <<>>
            ELSE LastCall(r).fn = AwaitedCall(at)
         /\ at = "encodeText1"
              => /\ CallsTo(r, "cache.set") = <<>>
                 /\ CallsTo(r, "searchSmart") = <<>>
                 /\ ~LRUHas(cache, KeyOf(r, machineLearning[r]))
         /\ at = "encodeText2" => CallsTo(r, "averageEmbeddings") = <<>>

C19_Witness ==
  \E r \in Requests :
    /\ result[r] = Rejection("encodeText1")
    /\ pc[r] = "failed"
    /\ Len(CallsTo(r, "encodeText")) = 1
    /\ Len(cache) = Prefill

\* r did not find its key in the cache on line 153
CacheMiss(r) == \E i \in 1..Len(calls[r]) :
  calls[r][i].fn = "cache.get" /\ ~calls[r][i].args[2]

\* r has written the cache on line 159
HasPut(r) == CallsTo(r, "cache.set") # <<>>

\* the value r wrote
PutValue(r) == CallsTo(r, "cache.set")[1].args[2]

\* the positions of c that hold key k
EntriesOf(c, k) == {i \in 1..Len(c) : c[i].key = k}

\* the step is the cache write of r
PutStep(r) ==
  /\ Len(calls'[r]) = Len(calls[r]) + 1
  /\ calls'[r][Len(calls'[r])].fn = "cache.set"

\* the requests that wrote key k
Writers(k) == {r \in Requests : HasPut(r) /\ KeyOf(r, machineLearning[r]) = k}

\* two requests that missed on the same key and both wrote it: the cache
\* holds one entry for the key, with a value a request wrote for that key
SameKeyPutsSettled ==
  \A r1, r2 \in Requests :
    (r1 # r2 /\ HasPut(r1) /\ HasPut(r2) /\ CacheMiss(r1) /\ CacheMiss(r2)
       /\ KeyOf(r1, machineLearning[r1]) = KeyOf(r2, machineLearning[r2]))
      => LET k == KeyOf(r1, machineLearning[r1]) IN
         /\ Cardinality(EntriesOf(cache, k)) = 1
         /\ LRUValue(cache, k) \in {PutValue(r) : r \in Writers(k)}

\* C20: concurrent misses on one key stay consistent.  Every put leaves
\* exactly one entry for its key, holding the value put, and grows the cache
\* by at most one entry, by none when the key is already there; no step
\* other than a put changes the value stored for the key it uses; so once
\* two requests that missed on the same key have both written it, the cache
\* holds one entry for the key, with the value of the put that came last.
C20_SameKeyMissesConsistent ==
  [][ IF Len(uses') = Len(uses)
        THEN cache' = cache
        ELSE /\ \A r \in Requests :
                  PutStep(r)
                    => LET put == calls'[r][Len(calls'[r])]
                           k == put.args[1]
                       IN /\ Cardinality(EntriesOf(cache', k)) = 1
                          /\ LRUValue(cache', k) = put.args[2]
                          /\ IF EntriesOf(cache, k) # {}
                             THEN Len(cache') = Len(cache)
                             ELSE Len(cache') <= Len(cache) + 1
             /\ (\A r \in Requests : ~PutStep(r))
                  => /\ Len(cache') = Len(cache)
                     /\ LRUValue(cache', uses'[Len(uses')])
                          = LRUValue(cache, uses'[Len(uses')])
             /\ SameKeyPutsSettled' ]_vars

\* two requests missed on the same key of an empty cache (so both read it
\* before either wrote), both called the encoder, got different vectors and
\* wrote them: one entry, one of the two values
C20_Witness ==
  \E r1, r2 \in Requests :
    /\ r1 # r2
    /\ pc[r1] = "done" /\ pc[r2] = "done"
    /\ CacheMiss(r1) /\ CacheMiss(r2)
    /\ CallsTo(r1, "encodeText")[1].args[1] = CallsTo(r2, "encodeText")[1].args[1]
    /\ HasPut(r1) /\ HasPut(r2)
    /\ PutValue(r1) # PutValue(r2)
    /\ Len(cache) = 1
    /\ cache[1].key = KeyOf(r1, machineLearning[r1])
    /\ cache[1].key = KeyOf(r2, machineLearning[r2])
    /\ cache[1].value = PutValue(r2)

====
